---- MODULE Spec2Model ----
(***************************************************************************)
(* Model of plugin.py: a QGIS plugin layer whose renderer (worker thread)  *)
(* asks a controller living in the GUI thread to load and paint a web page *)
(* and blocks in a local QEventLoop until the controller's finished signal *)
(* arrives or a 50 ms timer sees that rendering has been stopped.          *)
(*                                                                         *)
(* One renderer = one MtrExampleRenderer with its own MtrExampleController *)
(* (created in __init__), its own render context and its own worker thread.*)
(* The GUI thread is single: it runs one handler at a time.                *)
(***************************************************************************)
EXTENDS Naturals, Sequences, FiniteSets

\* number of MtrExampleRenderer instances rendering concurrently
NumRenderers == 2

Renderers == 1..NumRenderers

\* the threads: the single GUI thread and one worker thread per renderer
GuiThread == 0

WorkerThread(r) == r

\* thread a controller lives in: it is constructed in the renderer's
\* __init__, which runs in the GUI thread
ControllerThread(r) == GuiThread

\* thread render() is called in
RenderThread(r) == WorkerThread(r)

\* Contents of a QImage, as far as the program distinguishes them:
\*   "uninit"  : QImage(size, format) without fill: uninitialised buffer
\*   "partial" : a QPainter is open on the image and has drawn part of the page
\*   "page"    : the page was rendered and the painter ended
\*   "gray"    : img.fill(Qt.gray)

VARIABLES
    wpc,          \* wpc[r]: position of the worker inside render()
    timerActive,  \* timerActive[r]: the QTimer of render() was started
    loop,         \* loop[r]: self.loop, "None" or "loop"
    connected,    \* connected[r]: controller.finished is connected to loop.exit
    wqueue,       \* wqueue[r]: a queued finished->loop.exit call waits in the worker's thread
    exitBy,       \* exitBy[r]: which slot called loop.exit(): "none", "finished", "cancel"
    drawn,        \* drawn[r]: what painter.drawImage put on the context painter
    result,       \* result[r]: return value of render(), "none" until it returns
    stopped,      \* stopped[r]: context.renderingStopped()
    nRequests,    \* nRequests[r]: requests dispatched to the controller so far
    guiQueue,     \* posted events of the GUI thread: queued request() calls
    cpc,          \* cpc[r]: position of the controller: idle/loading/painting/painted/emitted
    cancelled,    \* cancelled[r]: controller.cancelled ("unset" before request())
    img,          \* img[r]: controller.img
    ranOn         \* ranOn[r]: thread that executed request(), "none" before

vars == <<wpc, timerActive, loop, connected, wqueue, exitBy, drawn, result,
          stopped, nRequests, guiQueue, cpc, cancelled, img, ranOn>>

workerVars == <<wpc, timerActive, loop, connected, exitBy, drawn, result>>

\* a variant of ConnectionType: every call is made directly in the caller's thread
ConnectionTypeDirect(callerThread, receiverThread) == "direct"

\* Qt::AutoConnection: a call is direct when the caller runs in the thread
\* the receiver lives in, queued (posted to the receiver's thread) otherwise
ConnectionType(callerThread, receiverThread) ==
    IF callerThread = receiverThread THEN "direct" ELSE "queued"

\* state after MtrExampleRenderer.__init__ (and MtrExampleController.__init__)
Init ==
    /\ wpc = [r \in Renderers |-> "ready"]
    /\ timerActive = [r \in Renderers |-> FALSE]
    /\ loop = [r \in Renderers |-> "None"]
    /\ connected = [r \in Renderers |-> FALSE]
    /\ wqueue = [r \in Renderers |-> FALSE]
    /\ exitBy = [r \in Renderers |-> "none"]
    /\ drawn = [r \in Renderers |-> "nothing"]
    /\ result = [r \in Renderers |-> "none"]
    /\ stopped = [r \in Renderers |-> FALSE]
    /\ nRequests = [r \in Renderers |-> 0]
    /\ guiQueue = <<>>
    /\ cpc = [r \in Renderers |-> "idle"]
    /\ cancelled = [r \in Renderers |-> "unset"]
    /\ img = [r \in Renderers |-> "uninit"]
    /\ ranOn = [r \in Renderers |-> "none"]

\* the GUI thread is inside a handler of some controller (pageFinished is
\* the only handler modelled in more than one step)
GuiBusy == \E q \in Renderers : cpc[q] \in {"painting", "painted"}

----------------------------------------------------------------------------
\* The host: QgsRenderContext.setRenderingStopped(true) when the job is cancelled
StopRendering(r) ==
    /\ ~stopped[r]
    /\ stopped' = [stopped EXCEPT ![r] = TRUE]
    /\ UNCHANGED <<workerVars, wqueue, nRequests, guiQueue, cpc, cancelled, img, ranOn>>

----------------------------------------------------------------------------
\* MtrExampleController.request body (lines 50-55), run by thread t
RequestBody(r, t) ==
    /\ cancelled' = [cancelled EXCEPT ![r] = "False"]
    /\ cpc' = [cpc EXCEPT ![r] = "loading"]
    /\ ranOn' = [ranOn EXCEPT ![r] = IF t = GuiThread THEN "gui" ELSE "worker"]

\* render(), line 83: QMetaObject.invokeMethod(self.controller, "request")
Invoke(r) ==
    /\ wpc[r] = "ready"
    /\ wpc' = [wpc EXCEPT ![r] = "timer"]
    /\ nRequests' = [nRequests EXCEPT ![r] = @ + 1]
    /\ IF ConnectionType(RenderThread(r), ControllerThread(r)) = "queued"
       THEN /\ guiQueue' = Append(guiQueue, r)
            /\ UNCHANGED <<cpc, cancelled, ranOn>>
       ELSE /\ RequestBody(r, RenderThread(r))
            /\ UNCHANGED guiQueue
    /\ UNCHANGED <<timerActive, loop, connected, wqueue, exitBy, drawn, result,
                   stopped, img>>

\* render(), lines 86-89: create the timer, connect onTimeout, start it
StartTimer(r) ==
    /\ wpc[r] = "timer"
    /\ wpc' = [wpc EXCEPT ![r] = "loop"]
    /\ timerActive' = [timerActive EXCEPT ![r] = TRUE]
    /\ UNCHANGED <<loop, connected, wqueue, exitBy, drawn, result, stopped,
                   nRequests, guiQueue, cpc, cancelled, img, ranOn>>

\* render(), line 92: self.loop = QEventLoop()
CreateLoop(r) ==
    /\ wpc[r] = "loop"
    /\ wpc' = [wpc EXCEPT ![r] = "connect"]
    /\ loop' = [loop EXCEPT ![r] = "loop"]
    /\ UNCHANGED <<timerActive, connected, wqueue, exitBy, drawn, result, stopped,
                   nRequests, guiQueue, cpc, cancelled, img, ranOn>>

\* render(), line 93: self.controller.finished.connect(self.loop.exit)
ConnectFinished(r) ==
    /\ wpc[r] = "connect"
    /\ wpc' = [wpc EXCEPT ![r] = "enter"]
    /\ connected' = [connected EXCEPT ![r] = TRUE]
    /\ UNCHANGED <<timerActive, loop, wqueue, exitBy, drawn, result, stopped,
                   nRequests, guiQueue, cpc, cancelled, img, ranOn>>

\* render(), line 94: the worker calls self.loop.exec_() and starts to wait;
\* from here on the worker thread delivers its timer and queued events
EnterLoop(r) ==
    /\ wpc[r] = "enter"
    /\ wpc' = [wpc EXCEPT ![r] = "exec"]
    /\ UNCHANGED <<timerActive, loop, connected, wqueue, exitBy, drawn, result,
                   stopped, nRequests, guiQueue, cpc, cancelled, img, ranOn>>

\* QEventLoop.exit() called by slot `why`: exec_() returns if the loop is
\* running it; on a loop that is not running the call has no effect
LoopExit(r, why) ==
    IF wpc[r] = "exec"
    THEN /\ wpc' = [wpc EXCEPT ![r] = "draw"]
         /\ exitBy' = [exitBy EXCEPT ![r] = why]
    ELSE UNCHANGED <<wpc, exitBy>>

\* a variant of onTimeout without the test of renderingStopped()
OnTimeoutAlwaysExit(r) ==
    /\ wpc[r] = "exec"
    /\ timerActive[r]
    /\ LoopExit(r, "cancel")
    /\ UNCHANGED <<timerActive, loop, connected, wqueue, drawn, result, stopped,
                   nRequests, guiQueue, cpc, cancelled, img, ranOn>>

\* a variant of onTimeout that sees the flag but does not leave the loop
OnTimeoutNoExit(r) ==
    /\ wpc[r] = "exec"
    /\ timerActive[r]
    /\ UNCHANGED vars

\* a variant of onTimeout that re-issues the request while rendering goes on
OnTimeoutRetry(r) ==
    /\ wpc[r] = "exec"
    /\ timerActive[r]
    /\ IF stopped[r]
       THEN /\ LoopExit(r, "cancel")
            /\ UNCHANGED <<nRequests, guiQueue>>
       ELSE /\ nRequests[r] < 3
            /\ nRequests' = [nRequests EXCEPT ![r] = @ + 1]
            /\ guiQueue' = Append(guiQueue, r)
            /\ UNCHANGED <<wpc, exitBy>>
    /\ UNCHANGED <<timerActive, loop, connected, wqueue, drawn, result, stopped,
                   cpc, cancelled, img, ranOn>>

\* a variant of onTimeout that also tells the controller about the cancellation
OnTimeoutSetsCancelled(r) ==
    /\ wpc[r] = "exec"
    /\ timerActive[r]
    /\ IF stopped[r]
       THEN /\ LoopExit(r, "cancel")
            /\ cancelled' = [cancelled EXCEPT ![r] = "True"]
       ELSE UNCHANGED <<wpc, exitBy, cancelled>>
    /\ UNCHANGED <<timerActive, loop, connected, wqueue, drawn, result, stopped,
                   nRequests, guiQueue, cpc, img, ranOn>>

\* a variant of onTimeout whose ticks are delivered as soon as the timer runs,
\* whether or not the worker is inside loop.exec_()
OnTimeoutAnytime(r) ==
    /\ timerActive[r]
    /\ wpc[r] # "done"
    /\ IF stopped[r]
       THEN LoopExit(r, "cancel")
       ELSE UNCHANGED <<wpc, exitBy>>
    /\ UNCHANGED <<timerActive, loop, connected, wqueue, drawn, result, stopped,
                   nRequests, guiQueue, cpc, cancelled, img, ranOn>>

\* onTimeout (lines 102-106): a timer tick, delivered by the worker's event
\* loop, i.e. only while the worker is inside loop.exec_()
OnTimeout(r) ==
    /\ wpc[r] = "exec"
    /\ timerActive[r]
    /\ IF stopped[r]
       THEN LoopExit(r, "cancel")
       ELSE UNCHANGED <<wpc, exitBy>>
    /\ UNCHANGED <<timerActive, loop, connected, wqueue, drawn, result, stopped,
                   nRequests, guiQueue, cpc, cancelled, img, ranOn>>

\* a variant of the delivery in which a finished signal that arrives after
\* render() returned runs the rest of render() once more
DeliverFinishedLate(r) ==
    /\ wpc[r] \in {"exec", "done"}
    /\ wqueue[r]
    /\ wqueue' = [wqueue EXCEPT ![r] = FALSE]
    /\ wpc' = [wpc EXCEPT ![r] = "draw"]
    /\ exitBy' = [exitBy EXCEPT ![r] = "finished"]
    /\ UNCHANGED <<timerActive, loop, connected, drawn, result, stopped,
                   nRequests, guiQueue, cpc, cancelled, img, ranOn>>

\* the worker's event loop delivers the queued finished signal to loop.exit
DeliverFinished(r) ==
    /\ wpc[r] = "exec"
    /\ wqueue[r]
    /\ wqueue' = [wqueue EXCEPT ![r] = FALSE]
    /\ LoopExit(r, "finished")
    /\ UNCHANGED <<timerActive, loop, connected, drawn, result, stopped,
                   nRequests, guiQueue, cpc, cancelled, img, ranOn>>

\* what a read of controller.img by the worker can see: the image itself,
\* or, when the GUI thread has a painter open on it at that moment (no lock
\* protects the image), any mixture of old and new pixels
ReadImage(r) ==
    IF cpc[r] = "painting" THEN {"uninit", "partial", "page"} ELSE {img[r]}

\* a variant of the end of render() that reports a cancelled wait as False
DrawImageReportsCancel(r) ==
    /\ wpc[r] = "draw"
    /\ wpc' = [wpc EXCEPT ![r] = "done"]
    /\ \E v \in ReadImage(r) : drawn' = [drawn EXCEPT ![r] = v]
    /\ result' = [result EXCEPT ![r] = IF exitBy[r] = "cancel" THEN "False" ELSE "True"]
    /\ UNCHANGED <<timerActive, loop, connected, wqueue, exitBy, stopped,
                   nRequests, guiQueue, cpc, cancelled, img, ranOn>>

\* render(), lines 96-100: painter.drawImage(0, 0, self.controller.img); return True
DrawImage(r) ==
    /\ wpc[r] = "draw"
    /\ wpc' = [wpc EXCEPT ![r] = "done"]
    /\ \E v \in ReadImage(r) : drawn' = [drawn EXCEPT ![r] = v]
    /\ result' = [result EXCEPT ![r] = "True"]
    /\ UNCHANGED <<timerActive, loop, connected, wqueue, exitBy, stopped,
                   nRequests, guiQueue, cpc, cancelled, img, ranOn>>

----------------------------------------------------------------------------
\* GUI thread: the queued request() call is taken from the event queue and
\* run (lines 49-55); the page load it starts is asynchronous
Request(r) ==
    /\ ~GuiBusy
    /\ guiQueue # <<>>
    /\ Head(guiQueue) = r
    /\ guiQueue' = Tail(guiQueue)
    /\ RequestBody(r, GuiThread)
    /\ UNCHANGED <<workerVars, wqueue, stopped, nRequests, img>>

\* a variant of pageFinished that emits finished before it paints
PageFinishedBeginEmitFirst(r) ==
    /\ ~GuiBusy
    /\ cpc[r] = "loading"
    /\ img' = [img EXCEPT ![r] = "partial"]
    /\ cpc' = [cpc EXCEPT ![r] = "painting"]
    /\ wqueue' = [wqueue EXCEPT ![r] = connected[r]]
    /\ UNCHANGED <<workerVars, stopped, nRequests, guiQueue, cancelled, ranOn>>

\* a variant of pageFinished that gives up, without a signal, when the
\* rendering was stopped during the load
PageFinishedBeginAbortOnStop(r) ==
    /\ ~GuiBusy
    /\ cpc[r] = "loading"
    /\ IF stopped[r]
       THEN /\ cpc' = [cpc EXCEPT ![r] = "idle"]
            /\ UNCHANGED img
       ELSE /\ img' = [img EXCEPT ![r] = "partial"]
            /\ cpc' = [cpc EXCEPT ![r] = "painting"]
    /\ UNCHANGED <<workerVars, wqueue, stopped, nRequests, guiQueue, cancelled, ranOn>>

\* GUI thread: page.loadFinished calls pageFinished (lines 57-64): the
\* branch on self.cancelled, then either a painter is opened on img and the
\* frame is rendered into it, or img is filled with gray
PageFinishedBegin(r) ==
    /\ ~GuiBusy
    /\ cpc[r] = "loading"
    /\ IF cancelled[r] # "True"
       THEN /\ img' = [img EXCEPT ![r] = "partial"]
            /\ cpc' = [cpc EXCEPT ![r] = "painting"]
       ELSE /\ img' = [img EXCEPT ![r] = "gray"]
            /\ cpc' = [cpc EXCEPT ![r] = "painted"]
    /\ UNCHANGED <<workerVars, wqueue, stopped, nRequests, guiQueue, cancelled, ranOn>>

\* pageFinished, line 62: painter.end(), the page is completely in img
PageFinishedPaintEnd(r) ==
    /\ cpc[r] = "painting"
    /\ img' = [img EXCEPT ![r] = "page"]
    /\ cpc' = [cpc EXCEPT ![r] = "painted"]
    /\ UNCHANGED <<workerVars, wqueue, stopped, nRequests, guiQueue, cancelled, ranOn>>

\* a variant of the emission for one controller shared by all renderers:
\* the signal reaches the loop of every renderer connected at this moment
PageFinishedEmitShared(r) ==
    /\ cpc[r] = "painted"
    /\ cpc' = [cpc EXCEPT ![r] = "emitted"]
    /\ wqueue' = [q \in Renderers |-> wqueue[q] \/ connected[q]]
    /\ UNCHANGED <<workerVars, stopped, nRequests, guiQueue, cancelled, img, ranOn>>

\* pageFinished, line 66: self.finished.emit(). The signal reaches the slots
\* connected at this moment; loop.exit belongs to the worker's thread, so the
\* call is queued there. With no connection the emission reaches nobody.
PageFinishedEmit(r) ==
    /\ cpc[r] = "painted"
    /\ cpc' = [cpc EXCEPT ![r] = "emitted"]
    /\ IF ~connected[r]
       THEN UNCHANGED <<wqueue, wpc, exitBy>>
       ELSE IF ConnectionType(ControllerThread(r), WorkerThread(r)) = "queued"
            THEN /\ wqueue' = [wqueue EXCEPT ![r] = TRUE]
                 /\ UNCHANGED <<wpc, exitBy>>
            ELSE /\ LoopExit(r, "finished")
                 /\ UNCHANGED wqueue
    /\ UNCHANGED <<timerActive, loop, connected, drawn, result, stopped,
                   nRequests, guiQueue, cancelled, img, ranOn>>

----------------------------------------------------------------------------
WorkerNext(r) ==
    \/ Invoke(r)
    \/ StartTimer(r)
    \/ CreateLoop(r)
    \/ ConnectFinished(r)
    \/ EnterLoop(r)
    \/ OnTimeout(r)
    \/ DeliverFinished(r)
    \/ DrawImage(r)

GuiNext(r) ==
    \/ Request(r)
    \/ PageFinishedBegin(r)
    \/ PageFinishedPaintEnd(r)
    \/ PageFinishedEmit(r)

Next == \E r \in Renderers : WorkerNext(r) \/ GuiNext(r) \/ StopRendering(r)

Spec == Init /\ [][Next]_vars

\* Scheduling: each worker thread keeps running its code and its event loop
\* (timer ticks included), the GUI thread keeps processing its events and a
\* started page load always ends with loadFinished. The host is not obliged
\* to cancel.
Fairness ==
    \A r \in Renderers : WF_vars(WorkerNext(r)) /\ WF_vars(GuiNext(r))

FairSpec == Spec /\ Fairness

----------------------------------------------------------------------------
\* Properties

\* the worker has left loop.exec_()
LeftWait(r) == wpc[r] \in {"draw", "done"}

\* requests of renderer r dispatched and not yet answered by finished
Outstanding(r) ==
    Cardinality({i \in DOMAIN guiQueue : guiQueue[i] = r})
    + (IF cpc[r] \in {"loading", "painting", "painted"} THEN 1 ELSE 0)

\* C1: when the wait was ended by the cancellation poll, the image drawn to
\* the context painter is entirely the neutral fill colour
C1_CancelledDrawsGray ==
    \A r \in Renderers :
        (exitBy[r] = "cancel" /\ wpc[r] = "done") => drawn[r] = "gray"

\* C2: under fair scheduling every render() eventually leaves the wait and
\* returns, also when rendering is never cancelled
C2_WaitTerminates ==
    \A r \in Renderers : <>(wpc[r] = "done")

\* C3: whenever the worker is about to execute drawImage, finished has been
\* emitted for its request (so the GUI thread has stopped writing the image)
C3_ReadAfterFinished ==
    \A r \in Renderers : wpc[r] = "draw" => cpc[r] = "emitted"

\* C4: when the wait was ended by the completion signal, the page was painted
\* before finished was emitted, finished was emitted before the worker read
\* the image, and the worker draws exactly the painted page
C4_CompletedDrawsPage ==
    \A r \in Renderers :
        /\ (cpc[r] = "emitted" => img[r] = "page")
        /\ (wqueue[r] => cpc[r] = "emitted")
        /\ (exitBy[r] = "finished" => cpc[r] = "emitted")
        /\ (exitBy[r] = "finished" /\ wpc[r] = "done" => drawn[r] = "page")

C4_Witness ==
    \E r \in Renderers :
        exitBy[r] = "finished" /\ wpc[r] = "done" /\ drawn[r] = "page"

\* C5: no completion signal is lost: once finished has been emitted, the call
\* of loop.exit is waiting in the worker's thread or the worker has left the wait
C5_NoSignalLost ==
    \A r \in Renderers : cpc[r] = "emitted" => (wqueue[r] \/ LeftWait(r))

\* C6: every renderer has at most one outstanding request, and never issues
\* a second one
C6_OneOutstanding ==
    \A r \in Renderers : Outstanding(r) <= 1 /\ nRequests[r] <= 1

C6_Witness ==
    /\ Len(guiQueue) = NumRenderers
    /\ \A r \in Renderers : Outstanding(r) = 1 /\ wpc[r] = "exec"

\* C7: a request the GUI thread has started to process always ends with the
\* emission of finished, whether or not rendering is stopped meanwhile
C7_LoadCompletes ==
    \A r \in Renderers : (cpc[r] = "loading") ~> (cpc[r] = "emitted")

C7_Witness ==
    \E r \in Renderers :
        /\ stopped[r] /\ exitBy[r] = "cancel" /\ wpc[r] = "done"
        /\ cpc[r] = "emitted" /\ img[r] = "page"

\* C8: once rendering is stopped the worker leaves the wait, with or without
\* the completion signal, also when the flag was set before render() began
C8_CancelAnswered ==
    \A r \in Renderers : stopped[r] ~> LeftWait(r)

C8_Witness ==
    \E r \in Renderers :
        exitBy[r] = "cancel" /\ LeftWait(r) /\ cpc[r] # "emitted" /\ ~wqueue[r]

\* C9: a step in which the worker leaves the wait is either the delivery of
\* an emitted finished signal or a tick that saw renderingStopped(); a tick
\* that sees the flag false changes nothing
C9_ExitReasons ==
    [][\A r \in Renderers :
          (wpc[r] = "exec" /\ wpc'[r] # "exec") =>
              \/ wqueue[r] /\ cpc[r] = "emitted" /\ exitBy'[r] = "finished"
              \/ stopped[r] /\ exitBy'[r] = "cancel"]_vars

C9_Witness ==
    \E r \in Renderers :
        wpc[r] = "draw" /\ exitBy[r] = "finished" /\ ~stopped[r]

\* C10: render() dispatches exactly one request, before the timer is started
\* and before the wait, whatever the rendering-stopped flag is; the request
\* body runs on the GUI thread only
C10_OneDispatch ==
    \A r \in Renderers :
        /\ nRequests[r] = (IF wpc[r] = "ready" THEN 0 ELSE 1)
        /\ (timerActive[r] => nRequests[r] = 1)
        /\ ranOn[r] \in {"none", "gui"}
        /\ (ranOn[r] = "gui" => nRequests[r] = 1)

C10_Witness ==
    \E r \in Renderers :
        stopped[r] /\ wpc[r] = "timer" /\ ~timerActive[r] /\ Outstanding(r) = 1

\* C11: controller.cancelled is never True; it is False from request() on,
\* so pageFinished always paints the page and never fills the image with gray
C11_NeverCancelled ==
    \A r \in Renderers :
        /\ cancelled[r] # "True"
        /\ (cpc[r] # "idle" => cancelled[r] = "False")
        /\ img[r] # "gray"

C11_Witness ==
    \E r \in Renderers :
        /\ stopped[r] /\ exitBy[r] = "cancel"
        /\ cpc[r] = "painting" /\ cancelled[r] = "False" /\ img[r] = "partial"

\* C12: render() returns True whenever it returns, after a wait ended by the
\* completion signal as well as after one ended by the cancellation poll
C12_ReturnsTrue ==
    \A r \in Renderers :
        /\ result[r] \in {"none", "True"}
        /\ (wpc[r] = "done" <=> result[r] = "True")
        /\ (wpc[r] = "done" => exitBy[r] \in {"finished", "cancel"})

C12_Witness ==
    \E r, q \in Renderers :
        /\ exitBy[r] = "finished" /\ result[r] = "True"
        /\ exitBy[q] = "cancel" /\ result[q] = "True"

\* C13: renderers do not interfere: the emission of finished by one
\* renderer's controller and a cancellation seen by one renderer leave every
\* other worker where it is; a worker is released by its own controller's
\* signal only, and draws its own controller's image only
C13_RenderersIsolated ==
    [][\A r \in Renderers :
          /\ (cpc[r] = "painted" /\ cpc'[r] = "emitted") =>
                \A q \in Renderers \ {r} :
                    wqueue'[q] = wqueue[q] /\ wpc'[q] = wpc[q] /\ exitBy'[q] = exitBy[q]
          /\ (exitBy[r] = "none" /\ exitBy'[r] = "cancel") =>
                \A q \in Renderers \ {r} :
                    wpc'[q] = wpc[q] /\ exitBy'[q] = exitBy[q]
          /\ (exitBy[r] = "none" /\ exitBy'[r] = "finished") =>
                wqueue[r] /\ cpc[r] = "emitted"
          /\ (wpc[r] = "draw" /\ wpc'[r] = "done") =>
                (drawn'[r] = img[r] \/ cpc[r] = "painting")]_vars

C13_Witness ==
    \E r, q \in Renderers :
        /\ r # q
        /\ exitBy[r] = "finished" /\ wpc[r] = "done" /\ drawn[r] = "page"
        /\ wpc[q] = "exec" /\ connected[q] /\ ~wqueue[q] /\ cpc[q] = "loading"

\* C14: once render() has returned, nothing (in particular not a finished
\* signal emitted later) changes its return value or what it drew, or moves
\* the worker into or out of a wait again
C14_LateCompletionHarmless ==
    [][\A r \in Renderers :
          wpc[r] = "done" =>
              /\ wpc'[r] = "done"
              /\ result'[r] = result[r]
              /\ drawn'[r] = drawn[r]
              /\ exitBy'[r] = exitBy[r]]_vars

C14_Witness ==
    \E r \in Renderers :
        /\ exitBy[r] = "cancel" /\ wpc[r] = "done" /\ drawn[r] = "uninit"
        /\ cpc[r] = "emitted" /\ wqueue[r]

\* C15: whenever a timer tick can run onTimeout, the worker is inside
\* loop.exec_() and self.loop is the loop it waits in, never None
C15_LoopSetAtTimeout ==
    \A r \in Renderers :
        (ENABLED OnTimeout(r)) => (loop[r] = "loop" /\ wpc[r] = "exec")

C15_Witness ==
    \E r \in Renderers :
        /\ timerActive[r] /\ loop[r] = "None" /\ stopped[r]
        /\ \E q \in Renderers : exitBy[q] = "cancel" /\ loop[q] = "loop"

====
